---- MODULE Spec2Model ----
(***************************************************************************)
(* Model of the peer-dependency installer of skyltmax/config               *)
(* (scripts/peer-deps/install.js): manager detection, the pnpm workspace   *)
(* root walk, the install command builder, prepareInstall and runCli.      *)
(*                                                                         *)
(* Paths, user agents, messages and package specifiers are strings, and    *)
(* the string functions of the code (startsWith, dirname, resolve, join,   *)
(* template literals) are computed on them.  The filesystem is the set of  *)
(* absolute paths that exist.                                              *)
(***************************************************************************)
EXTENDS Integers, Sequences, FiniteSets, TLC

VARIABLES
    files,        \* the filesystem: the set of absolute paths that exist
    probed,       \* the paths existsSync has been called on
    call,         \* the exported function under call and its arguments
    ret,          \* what that call returned or threw
    current,      \* findPnpmWorkspaceRoot: the loop variable `current`
    walkPc,       \* findPnpmWorkspaceRoot: "idle", "loop" or "returned"
    args,         \* runCli: the argument list
    env,          \* runCli: env.npm_config_user_agent (or undefined)
    cwd,          \* runCli: the working directory
    manifest,     \* the package manifest on disk
    pc,           \* runCli: where the invocation stands
    manifestRead, \* whether readFile has been called on the manifest
    result,       \* runCli: the value prepareInstall resolved with
    stdout,       \* what has been written to process.stdout, in order
    stderr,       \* what has been written to process.stderr, in order
    spawned,      \* the child processes spawned, in order
    promise,      \* the promise runCli awaits after the spawn
    emitted,      \* the events the child has emitted, in order
    returned      \* the exit codes runCli has returned (at most one)

vars == <<files, probed, call, ret, current, walkPc, args, env, cwd, manifest,
          pc, manifestRead, result, stdout, stderr, spawned, promise, emitted,
          returned>>

(***************************************************************************)
(* Bounds of the explored inputs.                                          *)
(***************************************************************************)
MaxDepth == 2    \* depth of the deepest directory
MaxFiles == 3    \* number of probed-for files that exist together
MaxArgs == 3     \* length of the argument list
MaxPeers == 2    \* number of entries of peerDependencies
MaxEvents == 2   \* number of events the spawned child emits

(***************************************************************************)
(* JavaScript values.                                                      *)
(***************************************************************************)
\* The value `undefined`; no input string equals it.
undefined == "\\undefined"

\* JavaScript truthiness of a string-or-undefined value.
Truthy(v) == v # undefined /\ v # ""

\* String.prototype.startsWith
startsWith(s, prefix) ==
    /\ Len(s) >= Len(prefix)
    /\ SubSeq(s, 1, Len(prefix)) = prefix

\* Array.prototype.includes
includes(seq, x) == \E i \in 1..Len(seq) : seq[i] = x

\* Array.prototype.indexOf, 0-based, -1 when absent
indexOf(seq, x) ==
    IF includes(seq, x)
    THEN (CHOOSE i \in 1..Len(seq) :
            seq[i] = x /\ \A j \in 1..(i - 1) : seq[j] # x) - 1
    ELSE -1

\* Array.prototype.join
RECURSIVE join(_, _)
join(seq, sep) ==
    IF Len(seq) = 0 THEN ""
    ELSE IF Len(seq) = 1 THEN seq[1]
    ELSE seq[1] \o sep \o join(Tail(seq), sep)

(***************************************************************************)
(* node:path on absolute POSIX paths.                                      *)
(***************************************************************************)
\* The index of the last "/" of p (p is absolute, so there is one).
LastSlash(p) ==
    CHOOSE i \in 1..Len(p) :
        /\ SubSeq(p, i, i) = "/"
        /\ \A j \in (i + 1)..Len(p) : SubSeq(p, j, j) # "/"

\* path.resolve(p) for an absolute p: trailing slashes are dropped.
RECURSIVE resolve1(_)
resolve1(p) ==
    IF Len(p) > 1 /\ SubSeq(p, Len(p), Len(p)) = "/"
    THEN resolve1(SubSeq(p, 1, Len(p) - 1))
    ELSE p

\* path.dirname of a resolved path
dirname(p) ==
    IF LastSlash(p) = 1 THEN "/" ELSE SubSeq(p, 1, LastSlash(p) - 1)

\* path.resolve(dir, name) for an absolute dir and a plain file name
resolve(dir, name) ==
    IF resolve1(dir) = "/" THEN "/" \o name ELSE resolve1(dir) \o "/" \o name

\* fs.existsSync
existsSync(p) == p \in files

(***************************************************************************)
(* detectManager: the value returned and the paths probed on the way.      *)
(***************************************************************************)
\* Faulty variant: the final `return "npm"` is missing.
DetectNoDefault(dir) ==
    LET p1 == resolve(dir, "pnpm-lock.yaml")
        p2 == resolve(dir, "bun.lockb")
        p3 == resolve(dir, "package-lock.json")
    IN  IF existsSync(p1) THEN [value |-> "pnpm", probes |-> {p1}]
        ELSE IF existsSync(p2) THEN [value |-> "bun", probes |-> {p1, p2}]
        ELSE IF existsSync(p3) THEN [value |-> "npm", probes |-> {p1, p2, p3}]
        ELSE [value |-> undefined, probes |-> {p1, p2, p3}]

DetectFromLockfiles(dir) ==
    LET p1 == resolve(dir, "pnpm-lock.yaml")
        p2 == resolve(dir, "bun.lockb")
        p3 == resolve(dir, "package-lock.json")
    IN  IF existsSync(p1) THEN [value |-> "pnpm", probes |-> {p1}]
        ELSE IF existsSync(p2) THEN [value |-> "bun", probes |-> {p1, p2}]
        ELSE IF existsSync(p3) THEN [value |-> "npm", probes |-> {p1, p2, p3}]
        ELSE [value |-> "npm", probes |-> {p1, p2, p3}]

\* Faulty variant: the lockfiles are probed before the user agent is read.
DetectLockfilesFirst(userAgent, dir) ==
    IF \E n \in {"pnpm-lock.yaml", "bun.lockb", "package-lock.json"} :
          existsSync(resolve(dir, n))
    THEN DetectFromLockfiles(dir)
    ELSE IF startsWith(userAgent, "pnpm/") THEN [value |-> "pnpm", probes |-> {}]
    ELSE IF startsWith(userAgent, "bun/") THEN [value |-> "bun", probes |-> {}]
    ELSE IF startsWith(userAgent, "npm/") THEN [value |-> "npm", probes |-> {}]
    ELSE DetectFromLockfiles(dir)

DetectFromUserAgent(userAgent, dir) ==
    IF startsWith(userAgent, "pnpm/") THEN [value |-> "pnpm", probes |-> {}]
    ELSE IF startsWith(userAgent, "bun/") THEN [value |-> "bun", probes |-> {}]
    ELSE IF startsWith(userAgent, "npm/") THEN [value |-> "npm", probes |-> {}]
    ELSE DetectFromLockfiles(dir)

\* `userAgent = ""` is the parameter default: undefined reads as "".
detectManager(managerArg, userAgent, dir) ==
    IF Truthy(managerArg) THEN [value |-> managerArg, probes |-> {}]
    ELSE DetectFromUserAgent(IF userAgent = undefined THEN "" ELSE userAgent, dir)

(***************************************************************************)
(* findPnpmWorkspaceRoot: one iteration of the loop, and the whole loop.   *)
(***************************************************************************)
\* Faulty variant: only pnpm-workspace.yaml is recognized.
HasYamlMarkerOnly(dir) == existsSync(resolve(dir, "pnpm-workspace.yaml"))

HasWorkspaceMarker(dir) ==
    \/ existsSync(resolve(dir, "pnpm-workspace.yaml"))
    \/ existsSync(resolve(dir, "pnpm-workspace.yml"))

\* The paths one iteration probes: `||` short-circuits.
MarkerProbes(dir) ==
    IF existsSync(resolve(dir, "pnpm-workspace.yaml"))
    THEN {resolve(dir, "pnpm-workspace.yaml")}
    ELSE {resolve(dir, "pnpm-workspace.yaml"), resolve(dir, "pnpm-workspace.yml")}

\* Faulty variant: `current = parent` is missing.
WalkIterationStuck(dir) ==
    IF HasWorkspaceMarker(dir)
    THEN [returns |-> TRUE, value |-> dir, next |-> dir]
    ELSE IF dirname(dir) = dir
    THEN [returns |-> TRUE, value |-> undefined, next |-> dir]
    ELSE [returns |-> FALSE, value |-> undefined, next |-> dir]

\* What the iteration at `dir` does: return a value, or go on with the parent.
WalkIteration(dir) ==
    IF HasWorkspaceMarker(dir)
    THEN [returns |-> TRUE, value |-> dir, next |-> dir]
    ELSE IF dirname(dir) = dir
    THEN [returns |-> TRUE, value |-> undefined, next |-> dir]
    ELSE [returns |-> FALSE, value |-> undefined, next |-> dirname(dir)]

\* The loop from `current = dir` on.
RECURSIVE WalkFrom(_)
WalkFrom(dir) ==
    LET it == WalkIteration(dir)
    IN  IF it.returns
        THEN [value |-> it.value, probes |-> MarkerProbes(dir)]
        ELSE LET rest == WalkFrom(it.next)
             IN  [value |-> rest.value,
                  probes |-> MarkerProbes(dir) \cup rest.probes]

\* `let current = resolve(startDir)`, then the loop.
findPnpmWorkspaceRoot(startDir) == WalkFrom(resolve1(startDir))

(***************************************************************************)
(* Values of calls.                                                        *)
(***************************************************************************)
\* No call has returned yet.
NoRet == [done |-> FALSE]

\* A call that returned v, and one that threw an Error with message m.
Returned(v) == [done |-> TRUE, threw |-> FALSE, value |-> v]
Threw(m) == [done |-> TRUE, threw |-> TRUE, message |-> m]

(***************************************************************************)
(* loadPeerDependencies.  The manifest on disk is a record: kind is        *)
(* "unreadable" (readFile rejects), "unparsable" (JSON.parse throws) or    *)
(* "json"; a "json" manifest has peerDependencies or not, and its entries  *)
(* are [name, version] records in insertion order.                         *)
(***************************************************************************)
ReadError == "ENOENT: no such file or directory, open 'package.json'"
ParseError == "Unexpected token in JSON at position 0"

\* manifest.peerDependencies ?? {}
PeersOf(m) == IF m.hasPeerDependencies THEN m.peerDependencies ELSE <<>>

\* Whether every character of s is a decimal digit.
IsDigits(s) ==
    \A i \in 1..Len(s) :
        SubSeq(s, i, i) \in {"0", "1", "2", "3", "4", "5", "6", "7", "8", "9"}

DigitValue(c) ==
    CASE c = "0" -> 0 [] c = "1" -> 1 [] c = "2" -> 2 [] c = "3" -> 3
      [] c = "4" -> 4 [] c = "5" -> 5 [] c = "6" -> 6 [] c = "7" -> 7
      [] c = "8" -> 8 [] c = "9" -> 9

\* The order of two digit strings of the same length.
RECURSIVE DigitsLess(_, _)
DigitsLess(a, b) ==
    IF Len(a) = 0 THEN FALSE
    ELSE IF SubSeq(a, 1, 1) # SubSeq(b, 1, 1)
    THEN DigitValue(SubSeq(a, 1, 1)) < DigitValue(SubSeq(b, 1, 1))
    ELSE DigitsLess(SubSeq(a, 2, Len(a)), SubSeq(b, 2, Len(b)))

\* The numeric order of two canonical numeric strings.
NumericLess(a, b) ==
    Len(a) < Len(b) \/ (Len(a) = Len(b) /\ DigitsLess(a, b))

\* A property key that is an array index: the canonical decimal string of an
\* integer from 0 to 2^32 - 2.
IsArrayIndex(key) ==
    /\ Len(key) > 0
    /\ IsDigits(key)
    /\ (Len(key) = 1 \/ SubSeq(key, 1, 1) # "0")
    /\ NumericLess(key, "4294967295")

\* Object.entries(peers) of the parsed object: the array-index keys in
\* ascending numeric order, then the other keys in insertion order.
ObjectEntries(peers) ==
    SortSeq(SelectSeq(peers, LAMBDA e : IsArrayIndex(e.name)),
            LAMBDA a, b : NumericLess(a.name, b.name))
      \o SelectSeq(peers, LAMBDA e : ~IsArrayIndex(e.name))

loadPeerDependencies(m) ==
    IF m.kind = "unreadable" THEN Threw(ReadError)
    ELSE IF m.kind = "unparsable" THEN Threw(ParseError)
    ELSE LET entries == ObjectEntries(PeersOf(m))
         IN  Returned([i \in 1..Len(entries) |->
                         entries[i].name \o "@" \o entries[i].version])

(***************************************************************************)
(* buildInstallCommand and formatCommand.                                  *)
(***************************************************************************)
\* args.splice(start, 0, item)
Splice(seq, start, item) ==
    SubSeq(seq, 1, start) \o <<item>> \o SubSeq(seq, start + 1, Len(seq))

\* Faulty variant: the command runs in cwd also when a workspace root is found.
PnpmCommandInCwd(packages, dir) ==
    LET workspaceRoot == findPnpmWorkspaceRoot(dir)
        base == <<"add", "-D", "--save-exact">> \o packages
    IN  [out |-> Returned(
            [command |-> "pnpm",
             args |-> IF Truthy(workspaceRoot.value)
                      THEN Splice(base, 2, "-w") ELSE base,
             cwd |-> dir]),
         probes |-> workspaceRoot.probes]

\* The branch `manager === "pnpm"`.
PnpmCommand(packages, dir) ==
    LET workspaceRoot == findPnpmWorkspaceRoot(dir)
        base == <<"add", "-D", "--save-exact">> \o packages
    IN  [out |-> Returned(
            [command |-> "pnpm",
             args |-> IF Truthy(workspaceRoot.value)
                      THEN Splice(base, 2, "-w") ELSE base,
             cwd |-> IF workspaceRoot.value # undefined
                     THEN workspaceRoot.value ELSE dir]),
         probes |-> workspaceRoot.probes]

\* Faulty variant: npm is redirected to the workspace root as pnpm is.
NpmCommandAtRoot(packages, dir) ==
    LET workspaceRoot == findPnpmWorkspaceRoot(dir)
    IN  [out |-> Returned(
            [command |-> "npm",
             args |-> <<"install", "--save-dev", "--save-exact">> \o packages,
             cwd |-> IF workspaceRoot.value # undefined
                     THEN workspaceRoot.value ELSE dir]),
         probes |-> workspaceRoot.probes]

\* The branch `manager === "npm"`.
NpmCommand(packages, dir) ==
    [out |-> Returned(
        [command |-> "npm",
         args |-> <<"install", "--save-dev", "--save-exact">> \o packages,
         cwd |-> dir]),
     probes |-> {}]

\* The branch `manager === "bun"`.
BunCommand(packages, dir) ==
    [out |-> Returned(
        [command |-> "bun",
         args |-> <<"add", "--dev", "--exact">> \o packages,
         cwd |-> dir]),
     probes |-> {}]

\* Faulty variant: an unknown manager falls back to npm.
UnsupportedFallsBackToNpm(manager, packages, dir) == NpmCommand(packages, dir)

\* The final throw: the manager is none of the three.
UnsupportedManager(manager, packages, dir) ==
    [out |-> Threw("Unsupported package manager: " \o manager
                   \o ". Supported managers: " \o "npm, pnpm, bun"),
     probes |-> {}]

\* Faulty variant: the package list is looked at after the manager.
BuildChecksEmptyLast(manager, packages, dir) ==
    IF manager = "pnpm"
    THEN IF Len(packages) = 0
         THEN [out |-> Threw("No peer dependencies to install."),
               probes |-> findPnpmWorkspaceRoot(dir).probes]
         ELSE PnpmCommand(packages, dir)
    ELSE IF manager \notin {"npm", "bun"}
    THEN UnsupportedManager(manager, packages, dir)
    ELSE IF Len(packages) = 0
    THEN [out |-> Threw("No peer dependencies to install."), probes |-> {}]
    ELSE IF manager = "npm" THEN NpmCommand(packages, dir)
    ELSE BunCommand(packages, dir)

buildInstallCommand(manager, packages, dir) ==
    IF Len(packages) = 0
    THEN [out |-> Threw("No peer dependencies to install."), probes |-> {}]
    ELSE IF manager = "pnpm" THEN PnpmCommand(packages, dir)
    ELSE IF manager = "npm" THEN NpmCommand(packages, dir)
    ELSE IF manager = "bun" THEN BunCommand(packages, dir)
    ELSE UnsupportedManager(manager, packages, dir)

formatCommand(command) == command.command \o " " \o join(command.args, " ")

(***************************************************************************)
(* prepareInstall: what it resolves with or rejects with, and the paths    *)
(* probed on the way.  userAgent is env.npm_config_user_agent.             *)
(***************************************************************************)
\* The steps after a non-empty package list has been loaded.
PrepareCommand(managerArg, dir, userAgent, packages) ==
    LET detected == detectManager(managerArg,
                        IF userAgent = undefined THEN "" ELSE userAgent, dir)
        built == buildInstallCommand(detected.value, packages, dir)
    IN  [out |-> IF built.out.threw THEN built.out
                 ELSE Returned(
                     [manager |-> detected.value,
                      packages |-> packages,
                      command |-> built.out.value.command,
                      args |-> built.out.value.args,
                      cwd |-> built.out.value.cwd,
                      printable |-> formatCommand(built.out.value)]),
         probes |-> detected.probes \cup built.probes]

\* Faulty variant: the empty package list is not short-circuited.
PrepareNoShortCircuit(managerArg, dir, userAgent, m) ==
    LET loaded == loadPeerDependencies(m)
    IN  IF loaded.threw THEN [out |-> loaded, probes |-> {}]
        ELSE PrepareCommand(managerArg, dir, userAgent, loaded.value)

prepareInstall(managerArg, dir, userAgent, m) ==
    LET loaded == loadPeerDependencies(m)
    IN  IF loaded.threw THEN [out |-> loaded, probes |-> {}]
        ELSE IF Len(loaded.value) = 0
        THEN [out |-> Returned([packages |-> <<>>]), probes |-> {}]
        ELSE PrepareCommand(managerArg, dir, userAgent, loaded.value)

(***************************************************************************)
(* runCli: its pure parts.                                                 *)
(***************************************************************************)
HELP ==
    "Usage: skyltmax-config-peers [options]\n\nOptions:\n"
    \o "  --manager <name>   npm | pnpm | bun (auto-detected by default)\n"
    \o "  --dry-run          Print the install command without running it\n"
    \o "  --help             Show this help message\n"

NoPeersMessage == "No peer dependencies found on @skyltmax/config.\n"

\* Faulty variant: the value of a flag is the next token that is not a flag.
argValueSkipsFlags(argv, flag) ==
    IF indexOf(argv, flag) = -1 THEN undefined
    ELSE LET rest == SelectSeq(SubSeq(argv, indexOf(argv, flag) + 2, Len(argv)),
                               LAMBDA t : ~startsWith(t, "--"))
         IN  IF rest = <<>> THEN undefined ELSE rest[1]

\* const argValue = flag => ...: args[index + 1], undefined past the end.
argValue(argv, flag) ==
    IF indexOf(argv, flag) = -1 THEN undefined
    ELSE IF indexOf(argv, flag) + 2 > Len(argv) THEN undefined
    ELSE argv[indexOf(argv, flag) + 2]

\* What runCli does next: writes to stdout and stderr, the exit code it
\* returns (or none yet) and the child it spawns (or none).
Outcome(out, err, code, child) ==
    [stdout |-> out, stderr |-> err, returned |-> code, spawn |-> child]

\* catch (error): the message goes to stderr and 1 is returned.
Caught(message) == Outcome(<<>>, <<message \o "\n">>, <<1>>, <<>>)

\* Faulty variant: --dry-run is not looked at.
AfterPrepareNoDryRun(prepared, dryRun) ==
    IF prepared.threw THEN Caught(prepared.message)
    ELSE IF Len(prepared.value.packages) = 0
    THEN Outcome(<<NoPeersMessage>>, <<>>, <<0>>, <<>>)
    ELSE Outcome(<<"Running: " \o prepared.value.printable \o "\n">>, <<>>, <<>>,
                 <<[command |-> prepared.value.command,
                    args |-> prepared.value.args,
                    stdio |-> "inherit",
                    cwd |-> prepared.value.cwd]>>)

\* Faulty variant: runCli returns 0 right after the spawn, without awaiting the child.
AfterPrepareNoAwait(prepared, dryRun) ==
    IF prepared.threw THEN Caught(prepared.message)
    ELSE IF Len(prepared.value.packages) = 0
    THEN Outcome(<<NoPeersMessage>>, <<>>, <<0>>, <<>>)
    ELSE IF dryRun
    THEN Outcome(<<prepared.value.printable \o "\n">>, <<>>, <<0>>, <<>>)
    ELSE Outcome(<<"Running: " \o prepared.value.printable \o "\n">>, <<>>, <<0>>,
                 <<[command |-> prepared.value.command,
                    args |-> prepared.value.args,
                    stdio |-> "inherit",
                    cwd |-> prepared.value.cwd]>>)

\* The try block once prepareInstall has settled with `prepared`.
AfterPrepare(prepared, dryRun) ==
    IF prepared.threw THEN Caught(prepared.message)
    ELSE IF Len(prepared.value.packages) = 0
    THEN Outcome(<<NoPeersMessage>>, <<>>, <<0>>, <<>>)
    ELSE IF dryRun
    THEN Outcome(<<prepared.value.printable \o "\n">>, <<>>, <<0>>, <<>>)
    ELSE Outcome(<<"Running: " \o prepared.value.printable \o "\n">>, <<>>, <<>>,
                 <<[command |-> prepared.value.command,
                    args |-> prepared.value.args,
                    stdio |-> "inherit",
                    cwd |-> prepared.value.cwd]>>)

\* The promise runCli awaits: not created, pending, or settled.
NoPromise == [state |-> "none"]
Pending == [state |-> "pending"]
Fulfilled(v) == [state |-> "fulfilled", value |-> v]
Rejected(m) == [state |-> "rejected", message |-> m]

\* Faulty variant: the close handler resolves whatever the code is.
OnCloseAlwaysResolves(code, command) == Fulfilled(0)

\* child.on("close", code => ...): what the handler settles the promise with.
\* Exit codes are written as the template literal prints them.
OnClose(code, command) ==
    IF code = "0" THEN Fulfilled(0)
    ELSE Rejected(command \o " exited with code " \o code)

\* child.on("error", error => reject(error))
OnError(message) == Rejected(message)

\* Faulty variant: a later resolve or reject replaces the first.
SettleLastWins(p, with) == IF p.state = "none" THEN p ELSE with

\* Settling a promise that is already settled changes nothing.
Settle(p, with) == IF p.state = "pending" THEN with ELSE p

\* `return await new Promise(...)` once the promise has settled.
AfterAwait(p) ==
    IF p.state = "fulfilled" THEN Outcome(<<>>, <<>>, <<p.value>>, <<>>)
    ELSE Caught(p.message)

(***************************************************************************)
(* The explored inputs.                                                    *)
(***************************************************************************)
\* The directory of depth n on one chain: "/", "/d1", "/d1/d2", ...
RECURSIVE Dir(_)
Dir(n) ==
    IF n = 0 THEN "/"
    ELSE IF n = 1 THEN "/d1"
    ELSE Dir(n - 1) \o "/d" \o ToString(n)

Dirs == {Dir(n) : n \in 0..MaxDepth}

\* Directories as a caller may write them: resolved, or with a trailing slash.
StartDirs == Dirs \cup {Dir(n) \o "/" : n \in 1..MaxDepth}

LockNames == {"pnpm-lock.yaml", "bun.lockb", "package-lock.json"}
MarkerNames == {"pnpm-workspace.yaml", "pnpm-workspace.yml"}

\* The filesystems holding at most MaxFiles of the files called `names`.
FileSystems(names) ==
    {S \in SUBSET {resolve(d, n) : d \in Dirs, n \in names} :
        Cardinality(S) <= MaxFiles}

ManagerArgs == {undefined, "", "npm", "pnpm", "bun", "yarn"}

UserAgents ==
    {undefined, "", "pnpm/9.0.0 npm/? node/v20.11.0 linux x64",
     "bun/1.1.0 npm/? node/v20.11.0", "npm/10.8.2 node/v20.11.0 linux x64",
     "yarn/1.22.22 npm/? node/v20.11.0", "pnpm", "node/v20.11.0 pnpm/9.0.0"}

Supported == {"npm", "pnpm", "bun"}

\* The pinned peers a manifest may declare; one has a name that is an array
\* index, which Object.entries enumerates before the other keys.
PeerPool ==
    {[name |-> "eslint", version |-> "9.39.1"],
     [name |-> "prettier", version |-> "3.6.2"],
     [name |-> "7", version |-> "1.0.0"]}

\* The peerDependencies objects of at most MaxPeers entries: keys are unique.
PeerEntries ==
    {es \in UNION {[1..n -> PeerPool] : n \in 0..MaxPeers} :
        \A i, j \in 1..Len(es) : i # j => es[i].name # es[j].name}

Manifests ==
    {[kind |-> "unreadable", hasPeerDependencies |-> FALSE, peerDependencies |-> <<>>],
     [kind |-> "unparsable", hasPeerDependencies |-> FALSE, peerDependencies |-> <<>>],
     [kind |-> "json", hasPeerDependencies |-> FALSE, peerDependencies |-> <<>>]}
    \cup {[kind |-> "json", hasPeerDependencies |-> TRUE, peerDependencies |-> es] :
            es \in PeerEntries}

\* The package lists buildInstallCommand is called with.
PackageLists ==
    {[i \in 1..Len(es) |-> es[i].name \o "@" \o es[i].version] : es \in PeerEntries}

\* runCli has not been invoked: the harness specifications leave it alone.
CliIdle ==
    /\ args = <<>>
    /\ env = undefined
    /\ cwd = "/"
    /\ manifest = [kind |-> "none"]
    /\ pc = "idle"
    /\ manifestRead = FALSE
    /\ result = NoRet
    /\ stdout = <<>>
    /\ stderr = <<>>
    /\ spawned = <<>>
    /\ promise = "none"
    /\ emitted = <<>>
    /\ returned = <<>>

WalkIdle == current = "" /\ walkPc = "idle"

cliVars == <<args, env, cwd, manifest, pc, manifestRead, result, stdout, stderr,
             spawned, promise, emitted, returned>>

(***************************************************************************)
(* SpecDetect: detectManager called on every explored input.               *)
(***************************************************************************)
InitDetect ==
    /\ files \in FileSystems(LockNames)
    /\ call \in [fn : {"detectManager"}, managerArg : ManagerArgs,
                 userAgent : UserAgents, cwd : StartDirs]
    /\ ret = NoRet
    /\ probed = {}
    /\ WalkIdle
    /\ CliIdle

CallDetectManager ==
    /\ call.fn = "detectManager"
    /\ ret = NoRet
    /\ LET r == detectManager(call.managerArg, call.userAgent, call.cwd)
       IN  /\ ret' = Returned(r.value)
           /\ probed' = probed \cup r.probes
    /\ UNCHANGED <<files, call, current, walkPc>>
    /\ UNCHANGED cliVars

NextDetect == CallDetectManager

SpecDetect == InitDetect /\ [][NextDetect]_vars

\* The call of detectManager has returned.
DetectReturned == call.fn = "detectManager" /\ ret.done

\* The user agent detectManager reads, and the lockfiles of its cwd.
CallUserAgent == IF call.userAgent = undefined THEN "" ELSE call.userAgent
CallHasLock(name) == resolve(call.cwd, name) \in files
CallAgentNames(m) == startsWith(CallUserAgent, m \o "/")
CallAgentSilent == \A m \in Supported : ~CallAgentNames(m)

\* C1: detectManager returns the result of the first matching rule: an
\* explicit choice, then the user agent's prefix (pnpm/, bun/, npm/), then the
\* lockfile of cwd (pnpm-lock.yaml, bun.lockb, package-lock.json), then npm.
\* An explicit choice is a non-empty string: `if (managerArg)`.
C1_DetectPrecedence ==
    DetectReturned =>
        /\ Truthy(call.managerArg) => ret.value = call.managerArg
        /\ \A m \in Supported :
             (~Truthy(call.managerArg) /\ CallAgentNames(m)) => ret.value = m
        /\ (~Truthy(call.managerArg) /\ CallAgentSilent) =>
             /\ CallHasLock("pnpm-lock.yaml") => ret.value = "pnpm"
             /\ (~CallHasLock("pnpm-lock.yaml") /\ CallHasLock("bun.lockb"))
                  => ret.value = "bun"
             /\ (~CallHasLock("pnpm-lock.yaml") /\ ~CallHasLock("bun.lockb"))
                  => ret.value = "npm"

\* C1 witness: the user agent says npm while cwd holds the lockfiles of pnpm
\* and bun, and npm is returned.
C1_Witness ==
    /\ DetectReturned
    /\ ~Truthy(call.managerArg)
    /\ CallAgentNames("npm")
    /\ CallHasLock("pnpm-lock.yaml")
    /\ CallHasLock("bun.lockb")
    /\ ret.value = "npm"

\* C2 as stated: detectManager raises no error and returns a member of
\* {npm, pnpm, bun} for every input.
C2_AlwaysSupported ==
    DetectReturned => (~ret.threw /\ ret.value \in Supported)

\* C2 amended: detectManager raises no error; without an explicit choice it
\* returns a member of {npm, pnpm, bun}, and an explicit choice is returned as
\* given, supported or not.
C2_SupportedUnlessExplicit ==
    DetectReturned =>
        /\ ~ret.threw
        /\ ~Truthy(call.managerArg) => ret.value \in Supported
        /\ Truthy(call.managerArg) => ret.value = call.managerArg

\* C2 witness: no explicit choice, a user agent that names no manager and no
\* lockfile in cwd; npm is returned.
C2_Witness ==
    /\ DetectReturned
    /\ call.managerArg = undefined
    /\ CallAgentSilent
    /\ \A n \in LockNames : ~CallHasLock(n)
    /\ ret.value = "npm"

(***************************************************************************)
(* SpecWalk: findPnpmWorkspaceRoot, one loop iteration per step.           *)
(***************************************************************************)
InitWalk ==
    /\ files \in FileSystems(MarkerNames)
    /\ call \in [fn : {"findPnpmWorkspaceRoot"}, startDir : StartDirs]
    /\ ret = NoRet
    /\ probed = {}
    /\ WalkIdle
    /\ CliIdle

\* let current = resolve(startDir)
WalkEnter ==
    /\ call.fn = "findPnpmWorkspaceRoot"
    /\ walkPc = "idle"
    /\ current' = resolve1(call.startDir)
    /\ walkPc' = "loop"
    /\ UNCHANGED <<files, probed, call, ret>>
    /\ UNCHANGED cliVars

\* One iteration of `while (true)`.
WalkStep ==
    /\ walkPc = "loop"
    /\ probed' = probed \cup MarkerProbes(current)
    /\ LET it == WalkIteration(current)
       IN  IF it.returns
           THEN /\ ret' = Returned(it.value)
                /\ walkPc' = "returned"
                /\ current' = current
           ELSE /\ current' = it.next
                /\ UNCHANGED <<ret, walkPc>>
    /\ UNCHANGED <<files, call>>
    /\ UNCHANGED cliVars

NextWalk == WalkEnter \/ WalkStep

SpecWalk == InitWalk /\ [][NextWalk]_vars

\* The loop is synchronous code: it always takes its next step.
FairWalk == SpecWalk /\ WF_vars(NextWalk)

\* The directories on the chain from dir up to the root, dir included.
Chain(dir) == {d \in Dirs : d = dir \/ d = "/" \/ startsWith(dir, d \o "/")}

\* The directories on the chain of the start directory that hold a marker.
MarkedOnChain ==
    {d \in Chain(resolve1(call.startDir)) :
        \E n \in MarkerNames : resolve(d, n) \in files}

\* C4: findPnpmWorkspaceRoot returns the nearest directory on the chain from
\* startDir to the root that holds pnpm-workspace.yaml or pnpm-workspace.yml,
\* and undefined exactly when no directory of the chain holds one.
C4_NearestMarkedAncestor ==
    walkPc = "returned" =>
        /\ ret.value = undefined <=> MarkedOnChain = {}
        /\ MarkedOnChain # {} =>
             /\ ret.value \in MarkedOnChain
             /\ \A d \in MarkedOnChain : Len(d) <= Len(ret.value)

\* C4 witness: a parent of the start directory and a farther ancestor both
\* hold a marker, and the parent is returned.
C4_Witness ==
    /\ walkPc = "returned"
    /\ ret.value # undefined
    /\ ret.value # resolve1(call.startDir)
    /\ \E d \in MarkedOnChain : Len(d) < Len(ret.value)

\* C5: the walk terminates: an iteration returns or goes on with a strictly
\* shorter path, it returns undefined only where the parent of current is
\* current, and every walk returns.
C5_WalkTerminates ==
    /\ [][walkPc = "loop" =>
            (walkPc' = "returned" \/ Len(current') < Len(current))]_vars
    /\ [](walkPc = "returned" /\ ret.value = undefined
            => dirname(current) = current)
    /\ <>(walkPc = "returned")

\* C5 witness: a walk from the deepest directory went up to the root and
\* returned undefined there.
C5_Witness ==
    /\ walkPc = "returned"
    /\ resolve1(call.startDir) = Dir(MaxDepth)
    /\ current = "/"
    /\ ret.value = undefined

(***************************************************************************)
(* SpecBuild: buildInstallCommand and prepareInstall called on every       *)
(* explored input.                                                         *)
(***************************************************************************)
BuildCalls ==
    [fn : {"buildInstallCommand"}, manager : Supported \cup {"yarn", "NPM"},
     packages : PackageLists, cwd : StartDirs]

PrepareCalls ==
    [fn : {"prepareInstall"}, managerArg : {undefined, "npm", "pnpm", "yarn"},
     userAgent : {undefined, "bun/1.1.0 npm/? node/v20.11.0",
                  "pnpm/9.0.0 npm/? node/v20.11.0 linux x64"},
     cwd : StartDirs, manifest : Manifests]

LoadCalls == [fn : {"loadPeerDependencies"}, manifest : Manifests]

InitBuild ==
    /\ \/ /\ files \in FileSystems(MarkerNames \cup {"pnpm-lock.yaml"})
          /\ call \in BuildCalls \cup PrepareCalls
       \/ /\ files = {}
          /\ call \in LoadCalls
    /\ ret = NoRet
    /\ probed = {}
    /\ WalkIdle
    /\ CliIdle

CallBuildInstallCommand ==
    /\ call.fn = "buildInstallCommand"
    /\ ~ret.done
    /\ LET r == buildInstallCommand(call.manager, call.packages, call.cwd)
       IN  /\ ret' = r.out
           /\ probed' = probed \cup r.probes
    /\ UNCHANGED <<files, call, current, walkPc>>
    /\ UNCHANGED cliVars

CallPrepareInstall ==
    /\ call.fn = "prepareInstall"
    /\ ~ret.done
    /\ LET r == prepareInstall(call.managerArg, call.cwd, call.userAgent,
                               call.manifest)
       IN  /\ ret' = r.out
           /\ probed' = probed \cup r.probes
    /\ UNCHANGED <<files, call, current, walkPc>>
    /\ UNCHANGED cliVars

CallLoadPeerDependencies ==
    /\ call.fn = "loadPeerDependencies"
    /\ ~ret.done
    /\ ret' = loadPeerDependencies(call.manifest)
    /\ UNCHANGED <<files, probed, call, current, walkPc>>
    /\ UNCHANGED cliVars

NextBuild ==
    CallBuildInstallCommand \/ CallPrepareInstall \/ CallLoadPeerDependencies

SpecBuild == InitBuild /\ [][NextBuild]_vars

\* The directories on the chain of dir that hold a workspace marker.
MarkedChain(dir) ==
    {d \in Chain(resolve1(dir)) : \E n \in MarkerNames : resolve(d, n) \in files}

\* The nearest of them.
NearestMarked(dir) ==
    CHOOSE d \in MarkedChain(dir) : \A e \in MarkedChain(dir) : Len(e) <= Len(d)

\* What a pnpm command for `packages` from `dir` must be.
PnpmShape(v, packages, dir) ==
    IF MarkedChain(dir) # {}
    THEN /\ v.args = <<"add", "-D", "-w", "--save-exact">> \o packages
         /\ v.cwd = NearestMarked(dir)
    ELSE /\ v.args = <<"add", "-D", "--save-exact">> \o packages
         /\ v.cwd = dir

\* A call of buildInstallCommand for pnpm with packages has ended.
BuiltForPnpm ==
    /\ call.fn = "buildInstallCommand"
    /\ ret.done
    /\ call.manager = "pnpm"
    /\ call.packages # <<>>

\* A call of prepareInstall that resolved pnpm as the manager has returned.
PreparedForPnpm ==
    /\ call.fn = "prepareInstall"
    /\ ret.done
    /\ ~ret.threw
    /\ ret.value.packages # <<>>
    /\ ret.value.manager = "pnpm"

\* C3: for pnpm and a non-empty package list, with a workspace root found the
\* args are add -D -w --save-exact <packages> and the cwd is that root; with
\* none found the args are add -D --save-exact <packages> and the cwd is the
\* input cwd.  prepareInstall returns the same args and cwd.
C3_PnpmWorkspaceRedirect ==
    /\ BuiltForPnpm =>
         /\ ~ret.threw
         /\ ret.value.command = "pnpm"
         /\ PnpmShape(ret.value, call.packages, call.cwd)
    /\ PreparedForPnpm =>
         /\ ret.value.command = "pnpm"
         /\ PnpmShape(ret.value, ret.value.packages, call.cwd)

\* C3 witness: prepareInstall resolved pnpm in a directory below a workspace
\* root and returned the root as cwd, with -w right after -D.
C3_Witness ==
    /\ PreparedForPnpm
    /\ MarkedChain(call.cwd) # {}
    /\ ret.value.cwd # resolve1(call.cwd)
    /\ ret.value.args[2] = "-D"
    /\ ret.value.args[3] = "-w"

(***************************************************************************)
(* Spec: one invocation of runCli, with the child it spawns.               *)
(***************************************************************************)
Tokens == {"--help", "--dry-run", "--manager", "pnpm", "yarn"}

ArgLists == UNION {[1..n -> Tokens] : n \in 0..MaxArgs}

\* One order of each set of peers: the order of the entries plays no part in
\* the control flow of runCli (SpecBuild explores every order).
CliManifests ==
    {m \in Manifests :
        \A i, j \in 1..Len(m.peerDependencies) :
            i < j => Len(m.peerDependencies[i].name) > Len(m.peerDependencies[j].name)}

\* runCli runs in the deepest directory; a workspace marker may stand in any
\* directory of its chain and pnpm-lock.yaml in the directory itself.
CliFileSystems ==
    {S \in FileSystems({"pnpm-workspace.yaml", "pnpm-lock.yaml"}) :
        \A d \in Dirs \ {Dir(MaxDepth)} : resolve(d, "pnpm-lock.yaml") \notin S}

CloseCodes == {"0", "1", "null"}
SpawnErrors == {"ENOENT"}

Init ==
    /\ files \in CliFileSystems
    /\ probed = {}
    /\ call = [fn |-> "runCli"]
    /\ ret = NoRet
    /\ WalkIdle
    /\ args \in ArgLists
    /\ env \in {undefined, "bun/1.1.0 npm/? node/v20.11.0"}
    /\ cwd = Dir(MaxDepth)
    /\ manifest \in CliManifests
    /\ pc = "start"
    /\ manifestRead = FALSE
    /\ result = NoRet
    /\ stdout = <<>>
    /\ stderr = <<>>
    /\ spawned = <<>>
    /\ promise = NoPromise
    /\ emitted = <<>>
    /\ returned = <<>>

\* The effects of an Outcome on the state of runCli.
Apply(o) ==
    /\ stdout' = stdout \o o.stdout
    /\ stderr' = stderr \o o.stderr
    /\ returned' = returned \o o.returned
    /\ spawned' = spawned \o o.spawn
    /\ promise' = IF o.spawn # <<>> /\ o.returned = <<>> THEN Pending ELSE promise
    /\ pc' = IF o.returned # <<>> THEN "done" ELSE "waiting"

\* Faulty variant: --help is not looked at before the manifest is read.
RunCliStartHelpLate ==
    /\ pc = "start"
    /\ manifestRead' = TRUE
    /\ pc' = "reading"
    /\ UNCHANGED <<stdout, stderr, returned, spawned, promise>>
    /\ UNCHANGED <<files, probed, call, ret, current, walkPc, args, env, cwd,
                   manifest, result, emitted>>

\* runCli up to its first await: --help, or the call of readFile.
RunCliStart ==
    /\ pc = "start"
    /\ IF includes(args, "--help")
       THEN /\ Apply(Outcome(<<HELP>>, <<>>, <<0>>, <<>>))
            /\ UNCHANGED manifestRead
       ELSE /\ manifestRead' = TRUE
            /\ pc' = "reading"
            /\ UNCHANGED <<stdout, stderr, returned, spawned, promise>>
    /\ UNCHANGED <<files, probed, call, ret, current, walkPc, args, env, cwd,
                   manifest, result, emitted>>

\* readFile has settled: prepareInstall goes on and settles, and runCli goes
\* on to its return or to the spawn.
ManifestLoaded ==
    /\ pc = "reading"
    /\ LET prepared == prepareInstall(argValue(args, "--manager"), cwd, env, manifest)
       IN  /\ result' = prepared.out
           /\ probed' = probed \cup prepared.probes
           /\ Apply(AfterPrepare(prepared.out, includes(args, "--dry-run")))
    /\ UNCHANGED <<files, call, ret, current, walkPc, args, env, cwd, manifest,
                   manifestRead, emitted>>

\* The child emits close with an exit code.
ChildClose(code) ==
    /\ spawned # <<>>
    /\ Len(emitted) < MaxEvents
    /\ \A i \in 1..Len(emitted) : emitted[i].event # "close"
    /\ emitted' = Append(emitted, [event |-> "close", code |-> code])
    /\ promise' = Settle(promise, OnClose(code, spawned[1].command))
    /\ UNCHANGED <<files, probed, call, ret, current, walkPc, args, env, cwd,
                   manifest, pc, manifestRead, result, stdout, stderr, spawned,
                   returned>>

\* The child emits error: the command could not be spawned, or it could not
\* be killed or sent a message.
ChildError(e) ==
    /\ spawned # <<>>
    /\ Len(emitted) < MaxEvents
    /\ LET message == "spawn " \o spawned[1].command \o " " \o e
       IN  /\ emitted' = Append(emitted, [event |-> "error", message |-> message])
           /\ promise' = Settle(promise, OnError(message))
    /\ UNCHANGED <<files, probed, call, ret, current, walkPc, args, env, cwd,
                   manifest, pc, manifestRead, result, stdout, stderr, spawned,
                   returned>>

\* The promise has settled: runCli goes on from its await.
RunCliResume ==
    /\ pc = "waiting"
    /\ promise.state \in {"fulfilled", "rejected"}
    /\ LET o == AfterAwait(promise)
       IN  /\ stdout' = stdout \o o.stdout
           /\ stderr' = stderr \o o.stderr
           /\ returned' = returned \o o.returned
    /\ pc' = "done"
    /\ UNCHANGED <<files, probed, call, ret, current, walkPc, args, env, cwd,
                   manifest, manifestRead, result, spawned, promise, emitted>>

Next ==
    \/ RunCliStart
    \/ ManifestLoaded
    \/ \E code \in CloseCodes : ChildClose(code)
    \/ \E e \in SpawnErrors : ChildError(e)
    \/ RunCliResume

Spec == Init /\ [][Next]_vars

\* The event loop runs the continuation of a settled promise.  The child is
\* not obliged to emit anything.
Fairness == WF_vars(RunCliResume)

\* The invocations in the default mode: peers declared, no --help, no
\* --dry-run.
InitDefault ==
    /\ Init
    /\ \A i \in DOMAIN args : args[i] \notin {"--help", "--dry-run"}
    /\ manifest.kind = "json"
    /\ manifest.hasPeerDependencies
    /\ manifest.peerDependencies # <<>>

FairSpec == InitDefault /\ [][Next]_vars /\ Fairness

(***************************************************************************)
(* The cases of an invocation, read from its inputs and its events.        *)
(***************************************************************************)
HasFlag(f) == \E i \in DOMAIN args : args[i] = f
Help == HasFlag("--help")
DryRun == HasFlag("--dry-run")

ManifestBroken == manifest.kind \in {"unreadable", "unparsable"}
NoPeers ==
    /\ manifest.kind = "json"
    /\ (~manifest.hasPeerDependencies \/ manifest.peerDependencies = <<>>)
HasPeers == manifest.kind = "json" /\ ~NoPeers

\* prepareInstall resolved with an install command.
Prepared == result.done /\ ~result.threw /\ result.value.packages # <<>>

\* The first event of the child is close with code 0 / is anything else.
ClosedClean ==
    emitted # <<>> /\ emitted[1] = [event |-> "close", code |-> "0"]
ChildFailed == emitted # <<>> /\ ~ClosedClean

\* What stderr holds after a child that failed first with event e.
FailureLine(e) ==
    IF e.event = "error" THEN e.message \o "\n"
    ELSE spawned[1].command \o " exited with code " \o e.code \o "\n"

\* C6: runCli returns 0 only for --help, --dry-run, no peers and a child
\* closed with code 0; on every error path (manifest unreadable or
\* unparsable, unsupported manager, spawn-level error, child closed with a
\* non-zero code) it writes the error's message to stderr and returns 1, the
\* message embedding the child's code; it always returns, one exit code.
C6_ExitCodeMapping ==
    pc = "done" =>
        /\ returned \in {<<0>>, <<1>>}
        /\ returned = <<0>> =>
             /\ stderr = <<>>
             /\ \/ Help
                \/ NoPeers
                \/ DryRun /\ Prepared
                \/ ClosedClean
        /\ (~Help /\ manifest.kind = "unreadable") =>
             returned = <<1>> /\ stderr = <<ReadError \o "\n">>
        /\ (~Help /\ manifest.kind = "unparsable") =>
             returned = <<1>> /\ stderr = <<ParseError \o "\n">>
        /\ \A i \in 1..(Len(args) - 1) :
             (/\ ~Help
              /\ HasPeers
              /\ args[i] = "--manager"
              /\ \A j \in 1..(i - 1) : args[j] # "--manager"
              /\ args[i + 1] \notin Supported) =>
                 /\ returned = <<1>>
                 /\ stderr = <<"Unsupported package manager: " \o args[i + 1]
                               \o ". Supported managers: npm, pnpm, bun\n">>
        /\ (result.done /\ result.threw) =>
             returned = <<1>> /\ stderr = <<result.message \o "\n">>
        /\ (spawned # <<>> /\ ChildFailed) =>
             returned = <<1>> /\ stderr = <<FailureLine(emitted[1])>>

\* C6 witness: the child closed with code 1 and runCli returned 1 with the
\* code in the message.
C6_Witness ==
    /\ pc = "done"
    /\ emitted # <<>>
    /\ emitted[1] = [event |-> "close", code |-> "1"]
    /\ returned = <<1>>
    /\ stderr = <<spawned[1].command \o " exited with code 1\n">>

\* C7: with --dry-run and without --help no child is ever spawned; when the
\* command could be built it is printed without the "Running: " prefix and
\* runCli returns 0.
C7_DryRunNeverSpawns ==
    (DryRun /\ ~Help) =>
        /\ spawned = <<>>
        /\ pc \in {"start", "reading", "done"}
        /\ Prepared =>
             /\ stdout = <<result.value.printable \o "\n">>
             /\ ~startsWith(stdout[1], "Running: ")
             /\ returned = <<0>>

\* C7 witness: a dry run with peers and a supported manager has returned 0.
C7_Witness ==
    /\ DryRun
    /\ ~Help
    /\ Prepared
    /\ pc = "done"
    /\ returned = <<0>>

\* C8: with --help anywhere runCli prints the usage and returns 0 with no
\* side effect: the manifest is not read, no path is probed, no child spawned.
C8_HelpHasNoSideEffect ==
    Help =>
        /\ ~manifestRead
        /\ probed = {}
        /\ spawned = <<>>
        /\ stderr = <<>>
        /\ ~result.done
        /\ pc \in {"start", "done"}
        /\ pc = "done" => (stdout = <<HELP>> /\ returned = <<0>>)

\* C8 witness: --help together with an unsupported --manager value returned 0.
C8_Witness ==
    /\ Help
    /\ \E i \in 1..(Len(args) - 1) : args[i] = "--manager" /\ args[i + 1] = "yarn"
    /\ pc = "done"
    /\ returned = <<0>>

\* C9 as stated: with no peers declared runCli prints the informational
\* message and returns 0 without spawning, for every flag combination.
C9_NoPeersMessageAlways ==
    (NoPeers /\ pc = "done") =>
        /\ stdout = <<NoPeersMessage>>
        /\ returned = <<0>>
        /\ spawned = <<>>

\* C9 amended: with no peers declared prepareInstall resolves with
\* {packages: []} without probing any path, and no child is spawned; without
\* --help runCli prints the informational message and returns 0 for every
\* other flag combination, and with --help it prints the usage and returns 0.
\* The error "No peer dependencies to install." is never written.
C9_NoPeersIsNoError ==
    NoPeers =>
        /\ spawned = <<>>
        /\ stderr = <<>>
        /\ result.done => (result = Returned([packages |-> <<>>]) /\ probed = {})
        /\ pc = "done" =>
             /\ returned = <<0>>
             /\ stdout = IF Help THEN <<HELP>> ELSE <<NoPeersMessage>>
             /\ ~Help => result.done

\* C9 witness: no peers and an unsupported --manager value; the message was
\* printed and 0 returned.
C9_Witness ==
    /\ NoPeers
    /\ ~Help
    /\ \E i \in 1..(Len(args) - 1) : args[i] = "--manager" /\ args[i + 1] = "yarn"
    /\ pc = "done"
    /\ stdout = <<NoPeersMessage>>
    /\ returned = <<0>>

\* C10: after the spawn runCli does not return before the child has emitted
\* close or error; while the child emits nothing runCli stays suspended; and
\* once the child has emitted close or error runCli returns an exit code.
C10_WaitsForChild ==
    /\ []((spawned # <<>> /\ returned # <<>>) => emitted # <<>>)
    /\ [][(pc = "waiting" /\ emitted' = <<>>) =>
            (pc' = "waiting" /\ returned' = <<>>)]_vars
    /\ (pc = "waiting" /\ emitted # <<>>) ~> (returned # <<>>)

\* C10 witness: a child was spawned, emitted an event, and runCli returned.
C10_Witness ==
    /\ spawned # <<>>
    /\ emitted # <<>>
    /\ pc = "done"
    /\ Len(returned) = 1

(***************************************************************************)
(* buildInstallCommand: its errors and the commands of npm and bun.        *)
(***************************************************************************)
\* Whether sub occurs in s.
Contains(s, sub) ==
    \E i \in 1..(Len(s) - Len(sub) + 1) : SubSeq(s, i, i + Len(sub) - 1) = sub

\* The first n elements of seq, each followed by one space but the last.
RECURSIVE SpaceJoined(_, _)
SpaceJoined(seq, n) ==
    IF n = 0 THEN ""
    ELSE IF n = 1 THEN seq[1]
    ELSE SpaceJoined(seq, n - 1) \o " " \o seq[n]

\* A call of buildInstallCommand has ended.
BuildEnded == call.fn = "buildInstallCommand" /\ ret.done

\* C11: buildInstallCommand with a manager outside {npm, pnpm, bun} and a
\* non-empty package list throws an error whose message names the manager and
\* lists the supported managers; no command is returned.
C11_UnsupportedManagerFails ==
    (BuildEnded /\ call.manager \notin {"npm", "pnpm", "bun"}
       /\ call.packages # <<>>) =>
        /\ ret.threw
        /\ Contains(ret.message, "Unsupported package manager: " \o call.manager)
        /\ Contains(ret.message, "Supported managers: npm, pnpm, bun")

\* C11 witness: the call for yarn has thrown.
C11_Witness ==
    /\ BuildEnded
    /\ call.manager = "yarn"
    /\ call.packages # <<>>
    /\ ret.threw

\* C12: buildInstallCommand throws whenever the package list is empty, for
\* every manager, supported or not, and before any probe of the filesystem.
C12_EmptyPackagesFail ==
    (BuildEnded /\ call.packages = <<>>) =>
        /\ ret.threw
        /\ ret.message = "No peer dependencies to install."
        /\ probed = {}

\* C12 witness: the call for pnpm with no package, below a workspace root,
\* has thrown.
C12_Witness ==
    /\ BuildEnded
    /\ call.manager = "pnpm"
    /\ call.packages = <<>>
    /\ MarkedChain(call.cwd) # {}
    /\ ret.threw

\* The exact command of npm and of bun for `packages`.
BaseArgs(manager) ==
    IF manager = "npm" THEN <<"install", "--save-dev", "--save-exact">>
    ELSE <<"add", "--dev", "--exact">>

\* A call of prepareInstall that resolved npm or bun has returned.
PreparedForNpmOrBun ==
    /\ call.fn = "prepareInstall"
    /\ ret.done
    /\ ~ret.threw
    /\ ret.value.packages # <<>>
    /\ ret.value.manager \in {"npm", "bun"}

\* C13: for npm and bun and a non-empty package list the args are exactly
\* install --save-dev --save-exact <packages> (npm) and add --dev --exact
\* <packages> (bun), the cwd is the input cwd as given, workspace marker or
\* not, and the printable string is the command and the args joined by
\* single spaces.
C13_NpmBunCommands ==
    /\ (BuildEnded /\ call.manager \in {"npm", "bun"} /\ call.packages # <<>>) =>
         /\ ret = Returned([command |-> call.manager,
                            args |-> BaseArgs(call.manager) \o call.packages,
                            cwd |-> call.cwd])
         /\ probed = {}
    /\ PreparedForNpmOrBun =>
         /\ ret.value.command = ret.value.manager
         /\ ret.value.args = BaseArgs(ret.value.manager) \o ret.value.packages
         /\ ret.value.cwd = call.cwd
         /\ ret.value.printable =
              SpaceJoined(<<ret.value.command>> \o ret.value.args,
                          Len(ret.value.args) + 1)

\* C13 witness: npm was called below a workspace root and keeps the input cwd.
C13_Witness ==
    /\ BuildEnded
    /\ call.manager = "npm"
    /\ call.packages # <<>>
    /\ \E d \in MarkedChain(call.cwd) : d # resolve1(call.cwd)
    /\ ~ret.threw
    /\ ret.value.cwd = call.cwd

(***************************************************************************)
(* loadPeerDependencies: the specifiers of the manifest.                   *)
(***************************************************************************)
\* The specifier of each entry of peerDependencies, in insertion order.
SpecifiersInManifestOrder(m) ==
    [i \in 1..Len(PeersOf(m)) |-> PeersOf(m)[i].name \o "@" \o PeersOf(m)[i].version]

\* C19: for a manifest with N entries in peerDependencies,
\* loadPeerDependencies returns N specifiers, the i-th being name@version of
\* the i-th entry in insertion order; an empty or absent peerDependencies
\* gives the empty list.
C19_SpecifiersInManifestOrder ==
    (call.fn = "loadPeerDependencies" /\ ret.done /\ call.manifest.kind = "json") =>
        ret = Returned(SpecifiersInManifestOrder(call.manifest))

(***************************************************************************)
(* runCli: what is spawned and printed.                                    *)
(***************************************************************************)
\* The flag that pins exact versions for a manager.
ExactFlag(manager) == IF manager = "bun" THEN "--exact" ELSE "--save-exact"

\* How often x occurs in seq.
Occurrences(seq, x) == Cardinality({i \in DOMAIN seq : seq[i] = x})

\* A command of a supported manager that carries its exact flag and every
\* specifier of the manifest exactly once.
Pinned(c) ==
    /\ c.command \in {"npm", "pnpm", "bun"}
    /\ Occurrences(c.args, ExactFlag(c.command)) >= 1
    /\ \A i \in DOMAIN PeersOf(manifest) :
         Occurrences(c.args, SpecifiersInManifestOrder(manifest)[i]) = 1

\* The args of c end with the specifiers of the manifest in insertion order.
EndsInManifestOrder(c) ==
    LET specifiers == SpecifiersInManifestOrder(manifest)
    IN  /\ Len(c.args) >= Len(specifiers)
        /\ SubSeq(c.args, Len(c.args) - Len(specifiers) + 1, Len(c.args)) = specifiers

\* Every command line runCli has printed holds an exact flag.
PrintedPinned ==
    (Prepared /\ ~Help /\ stdout # <<>>) =>
        \A i \in DOMAIN stdout :
            Contains(stdout[i], " " \o ExactFlag(result.value.command) \o " ")

\* Every child spawned so far is pinned, and so is every line printed.
OnlyPinned == PrintedPinned /\ \A i \in DOMAIN spawned : Pinned(spawned[i])

\* C14: in every execution of runCli any spawned child has its command in
\* {npm, pnpm, bun}, carries the exact flag of its manager and its args end
\* with every specifier of the manifest, each once, in manifest order; no
\* command without exact pinning is spawned or printed.
C14_SpawnedCommandsPinned ==
    /\ OnlyPinned
    /\ \A i \in DOMAIN spawned : EndsInManifestOrder(spawned[i])

(***************************************************************************)
(* runCli: the value of --manager.                                         *)
(***************************************************************************)
\* The place of the first --manager in the argument list.
IsFirstManagerFlag(i) ==
    /\ i \in DOMAIN args
    /\ args[i] = "--manager"
    /\ \A j \in 1..(i - 1) : args[j] # "--manager"

\* The manager detected for the run when none is chosen.
AutoDetected ==
    IF startsWith(env, "pnpm/") THEN "pnpm"
    ELSE IF startsWith(env, "bun/") THEN "bun"
    ELSE IF resolve(cwd, "pnpm-lock.yaml") \in files THEN "pnpm"
    ELSE IF resolve(cwd, "bun.lockb") \in files THEN "bun"
    ELSE "npm"

\* prepareInstall has settled for a run with peers that is not for --help.
PreparedWithPeers == ~Help /\ HasPeers /\ result.done

null == "\\null"

ResolveError(name) == "Cannot find module '" \o name \o "/package.json'"
PackageReadError == "EISDIR: illegal operation on a directory, read"

\* createConsumerRequire(root): the consumer's resolution context when the
\* root holds a package.json, the auditor's own otherwise.
createConsumerRequire(root, fromRoot, fromSelf) ==
    IF existsSync(resolve(root, "package.json")) THEN fromRoot ELSE fromSelf

MissingEntry(peer, reason) ==
    [name |-> peer.name, expectedVersion |-> peer.version, reason |-> reason]

MismatchedEntry(peer, actualVersion, reason) ==
    [name |-> peer.name, expectedVersion |-> peer.version,
     actualVersion |-> actualVersion, reason |-> reason]

\* Faulty variant: a manifest that cannot be read or parsed counts as missing.
AuditPeerUnknownIsMissing(peer, require, lists) ==
    LET pkg == require[peer.name]
    IN  IF pkg.kind = "absent"
        THEN [lists EXCEPT !.missing =
                 Append(@, MissingEntry(peer, ResolveError(peer.name)))]
        ELSE IF pkg.kind = "unreadable"
        THEN [lists EXCEPT !.missing = Append(@, MissingEntry(peer, PackageReadError))]
        ELSE IF pkg.kind = "unparsable"
        THEN [lists EXCEPT !.missing = Append(@, MissingEntry(peer, ParseError))]
        ELSE IF pkg.version # peer.version
        THEN [lists EXCEPT !.mismatched =
                 Append(@, MismatchedEntry(peer, pkg.version, undefined))]
        ELSE lists

\* One iteration of the loop over the peers.
AuditPeer(peer, require, lists) ==
    LET pkg == require[peer.name]
    IN  IF pkg.kind = "absent"
        THEN [lists EXCEPT !.missing =
                 Append(@, MissingEntry(peer, ResolveError(peer.name)))]
        ELSE IF pkg.kind = "unreadable"
        THEN [lists EXCEPT !.mismatched =
                 Append(@, MismatchedEntry(peer, "unknown", PackageReadError))]
        ELSE IF pkg.kind = "unparsable"
        THEN [lists EXCEPT !.mismatched =
                 Append(@, MismatchedEntry(peer, "unknown", ParseError))]
        ELSE IF pkg.version # peer.version
        THEN [lists EXCEPT !.mismatched =
                 Append(@, MismatchedEntry(peer, pkg.version, undefined))]
        ELSE lists

\* The loop over peers[i..]: what it leaves in missing and mismatched.
RECURSIVE AuditLoop(_, _, _, _)
AuditLoop(peers, i, require, lists) ==
    IF i > Len(peers) THEN lists
    ELSE AuditLoop(peers, i + 1, require, AuditPeer(peers[i], require, lists))

auditPeerDependencies(m, root, fromRoot, fromSelf) ==
    IF m.kind = "unreadable" THEN [out |-> Threw(ReadError), probes |-> {}]
    ELSE IF m.kind = "unparsable" THEN [out |-> Threw(ParseError), probes |-> {}]
    ELSE LET peers == ObjectEntries(PeersOf(m))
         IN  IF Len(peers) = 0
             THEN [out |-> Returned([peers |-> peers, missing |-> <<>>,
                                     mismatched |-> <<>>]),
                   probes |-> {}]
             ELSE LET require == createConsumerRequire(root, fromRoot, fromSelf)
                      lists == AuditLoop(peers, 1, require,
                                         [missing |-> <<>>, mismatched |-> <<>>])
                  IN  [out |-> Returned([peers |-> peers,
                                         missing |-> lists.missing,
                                         mismatched |-> lists.mismatched]),
                       probes |-> {resolve(root, "package.json")}]

AuditHeader == "[signmax-config] Peer dependency check detected issues:"
AuditHint == "  Run \"npx signmax-config-peers\" to install the correct versions."

MissingLine(item) == "    - " \o item.name \o "@" \o item.expectedVersion

\* Faulty variant: the parenthetical is written for every mismatch.
MismatchLineAlwaysFound(item) ==
    "    - " \o item.name \o "@" \o item.expectedVersion
      \o " (found " \o item.actualVersion \o ")"

MismatchLine(item) ==
    LET details == IF Truthy(item.actualVersion)
                   THEN " (found " \o item.actualVersion \o ")"
                   ELSE ""
    IN  "    - " \o item.name \o "@" \o item.expectedVersion \o details

\* The lines pushed for the two lists.
ReportLines(missing, mismatched) ==
    <<AuditHeader>>
      \o (IF Len(missing) # 0
          THEN <<"  Missing peers:">> \o [i \in 1..Len(missing) |-> MissingLine(missing[i])]
          ELSE <<>>)
      \o (IF Len(mismatched) # 0
          THEN <<"  Version mismatches:">>
                 \o [i \in 1..Len(mismatched) |-> MismatchLine(mismatched[i])]
          ELSE <<>>)
      \o <<AuditHint>>

\* Faulty variant: null as soon as one of the lists is empty.
FormatNullIfEitherEmpty(missing, mismatched) ==
    IF Len(missing) = 0 \/ Len(mismatched) = 0 THEN null
    ELSE join(ReportLines(missing, mismatched), "\n")

formatAuditMessage(missing, mismatched) ==
    IF Len(missing) = 0 /\ Len(mismatched) = 0 THEN null
    ELSE join(ReportLines(missing, mismatched), "\n")

\* Faulty variant: no try/catch around the audit.
RunPostinstallAuditNoCatch(m, root, fromRoot, fromSelf) ==
    LET audit == auditPeerDependencies(m, root, fromRoot, fromSelf)
    IN  IF audit.out.threw
        THEN [out |-> audit.out, warned |-> <<>>, probes |-> audit.probes]
        ELSE LET message == formatAuditMessage(audit.out.value.missing,
                                               audit.out.value.mismatched)
             IN  [out |-> Returned(undefined),
                  warned |-> IF message # null /\ Truthy(message)
                             THEN <<message \o "\n">> ELSE <<>>,
                  probes |-> audit.probes]

\* runPostinstallAudit: what console.warn writes and how the promise settles.
runPostinstallAudit(m, root, fromRoot, fromSelf) ==
    LET audit == auditPeerDependencies(m, root, fromRoot, fromSelf)
    IN  IF audit.out.threw
        THEN [out |-> Returned(undefined),
              warned |-> <<"[signmax-config] Peer dependency check skipped: "
                            \o audit.out.message \o "\n">>,
              probes |-> audit.probes]
        ELSE LET message == formatAuditMessage(audit.out.value.missing,
                                               audit.out.value.mismatched)
             IN  [out |-> Returned(undefined),
                  warned |-> IF message # null /\ Truthy(message)
                             THEN <<message \o "\n">> ELSE <<>>,
                  probes |-> audit.probes]

(***************************************************************************)
(* The auditor under call: auditPeerDependencies and runPostinstallAudit   *)
(* on a manifest and a consumer, formatAuditMessage on two lists.          *)
(***************************************************************************)
PeerNames == {p.name : p \in PeerPool}

Absent == [kind |-> "absent", version |-> undefined]

\* What a resolution context may hold for a package pinned at `expected`.
PackageStates(expected) ==
    {Absent,
     [kind |-> "unreadable", version |-> undefined],
     [kind |-> "unparsable", version |-> undefined],
     [kind |-> "json", version |-> expected],
     [kind |-> "json", version |-> "9.0.0"],
     [kind |-> "json", version |-> undefined]}

\* The contexts for manifest m with packages of the given kinds: a package
\* that m does not name is absent.
Contexts(m, kinds) ==
    {f \in [PeerNames -> UNION {PackageStates(p.version) : p \in PeerPool}] :
        /\ \A n \in PeerNames :
             (\A i \in DOMAIN PeersOf(m) : PeersOf(m)[i].name # n) => f[n] = Absent
        /\ \A i \in DOMAIN PeersOf(m) :
             /\ f[PeersOf(m)[i].name] \in PackageStates(PeersOf(m)[i].version)
             /\ f[PeersOf(m)[i].name].kind \in kinds}

ConsumerRoot == "/d1"

\* The entries formatAuditMessage is called with.
MissingPool == {MissingEntry(p, ResolveError(p.name)) : p \in PeerPool}

MismatchedPool ==
    UNION {{MismatchedEntry(p, "9.0.0", undefined),
            MismatchedEntry(p, undefined, undefined),
            MismatchedEntry(p, "unknown", ParseError)} : p \in PeerPool}

FormatCalls ==
    [fn : {"formatAuditMessage"},
     missing : UNION {[1..n -> MissingPool] : n \in 0..MaxPeers},
     mismatched : UNION {[1..n -> MismatchedPool] : n \in 0..MaxPeers}]

InitAudit ==
    /\ \/ /\ files \in SUBSET {resolve(ConsumerRoot, "package.json")}
          /\ \E m \in Manifests :
               \E fn \in {"auditPeerDependencies", "runPostinstallAudit"},
                  fromRoot \in Contexts(m, {"absent", "unreadable", "unparsable", "json"}),
                  fromSelf \in Contexts(m, {"absent", "json"}) :
                   call = [fn |-> fn, manifest |-> m, consumerRoot |-> ConsumerRoot,
                           fromRoot |-> fromRoot, fromSelf |-> fromSelf]
       \/ /\ files = {}
          /\ call \in FormatCalls
    /\ ret = NoRet
    /\ probed = {}
    /\ WalkIdle
    /\ CliIdle

CallAuditPeerDependencies ==
    /\ call.fn = "auditPeerDependencies"
    /\ ~ret.done
    /\ LET r == auditPeerDependencies(call.manifest, call.consumerRoot,
                                      call.fromRoot, call.fromSelf)
       IN  /\ ret' = r.out
           /\ probed' = probed \cup r.probes
    /\ UNCHANGED <<files, call, current, walkPc>>
    /\ UNCHANGED cliVars

CallFormatAuditMessage ==
    /\ call.fn = "formatAuditMessage"
    /\ ~ret.done
    /\ ret' = Returned(formatAuditMessage(call.missing, call.mismatched))
    /\ UNCHANGED <<files, probed, call, current, walkPc>>
    /\ UNCHANGED cliVars

CallRunPostinstallAudit ==
    /\ call.fn = "runPostinstallAudit"
    /\ ~ret.done
    /\ LET r == runPostinstallAudit(call.manifest, call.consumerRoot,
                                    call.fromRoot, call.fromSelf)
       IN  /\ ret' = r.out
           /\ stderr' = stderr \o r.warned
           /\ probed' = probed \cup r.probes
    /\ UNCHANGED <<files, call, current, walkPc, args, env, cwd, manifest, pc,
                   manifestRead, result, stdout, spawned, promise, emitted, returned>>

NextAudit ==
    CallAuditPeerDependencies \/ CallFormatAuditMessage \/ CallRunPostinstallAudit

SpecAudit == InitAudit /\ [][NextAudit]_vars

(***************************************************************************)
(* The auditor: classification of the peers.                               *)
(***************************************************************************)
AuditEnded == call.fn = "auditPeerDependencies" /\ ret.done /\ ~ret.threw

\* The entries of `list` for the package `name`.
EntriesFor(list, name) == {i \in DOMAIN list : list[i].name = name}

\* The context the packages are resolved in: the consumer's when the root
\* holds a package.json, the auditor's own otherwise.
ResolutionContext ==
    IF (call.consumerRoot \o "/package.json") \in files
    THEN call.fromRoot ELSE call.fromSelf

\* The lists returned classify each peer of the manifest by what `context`
\* holds for it.
ClassifiedBy(context) ==
    LET missing == ret.value.missing
        mismatched == ret.value.mismatched
        peers == PeersOf(call.manifest)
    IN  /\ \A i \in DOMAIN peers :
             LET name == peers[i].name
                 expected == peers[i].version
                 found == context[name]
             IN  /\ found.kind = "absent" =>
                      /\ EntriesFor(mismatched, name) = {}
                      /\ \E k \in DOMAIN missing :
                           /\ EntriesFor(missing, name) = {k}
                           /\ missing[k].expectedVersion = expected
                           /\ missing[k].reason = ResolveError(name)
                 /\ (found.kind = "json" /\ found.version = expected) =>
                      /\ EntriesFor(missing, name) = {}
                      /\ EntriesFor(mismatched, name) = {}
                 /\ (found.kind = "json" /\ found.version # expected) =>
                      /\ EntriesFor(missing, name) = {}
                      /\ \E k \in DOMAIN mismatched :
                           /\ EntriesFor(mismatched, name) = {k}
                           /\ mismatched[k].expectedVersion = expected
                           /\ mismatched[k].actualVersion = found.version
                 /\ found.kind \in {"unreadable", "unparsable"} =>
                      /\ EntriesFor(missing, name) = {}
                      /\ \E k \in DOMAIN mismatched :
                           /\ EntriesFor(mismatched, name) = {k}
                           /\ mismatched[k].expectedVersion = expected
                           /\ mismatched[k].actualVersion = "unknown"
                           /\ mismatched[k].reason =
                                IF found.kind = "unreadable"
                                THEN PackageReadError ELSE ParseError
        /\ (\A i \in DOMAIN peers :
              /\ context[peers[i].name].kind = "json"
              /\ context[peers[i].name].version = peers[i].version) =>
             missing = <<>> /\ mismatched = <<>>

\* C15 as stated: auditPeerDependencies classifies each peer by the
\* resolution of <name>/package.json from the consumer root: failure gives
\* an entry in missing with the reason, an equal version no entry, another
\* version an entry in mismatched with both versions, a read or parse
\* failure an entry in mismatched with actualVersion "unknown" and the
\* reason; all peers present and matching leave both lists empty.
C15_ClassifiedFromConsumerRoot == AuditEnded => ClassifiedBy(call.fromRoot)

\* C15 as amended: the same classification, by the resolution from the
\* consumer root when that root holds a package.json and from the auditor's
\* own location when it does not.
C15_ClassifiedFromResolutionContext == AuditEnded => ClassifiedBy(ResolutionContext)

\* C15 witness: an audit from a root with a package.json has found one peer
\* missing and one whose manifest could not be read or parsed.
C15_Witness ==
    /\ AuditEnded
    /\ files # {}
    /\ Len(ret.value.missing) = 1
    /\ Len(ret.value.mismatched) = 1
    /\ ret.value.mismatched[1].actualVersion = "unknown"

(***************************************************************************)
(* The auditor: runPostinstallAudit.                                       *)
(***************************************************************************)
PostinstallEnded == call.fn = "runPostinstallAudit" /\ ret.done

\* Some peer of the manifest is not installed at its pinned version.
IssuesFound ==
    \E i \in DOMAIN PeersOf(call.manifest) :
        LET found == ResolutionContext[PeersOf(call.manifest)[i].name]
        IN  found.kind # "json" \/ found.version # PeersOf(call.manifest)[i].version

\* C16: runPostinstallAudit never throws: a manifest that cannot be read or
\* parsed gives one "check skipped" warning with the error's message, issues
\* give one warning with the report, and no issue gives no output.
C16_PostinstallNeverThrows ==
    PostinstallEnded =>
        /\ ~ret.threw
        /\ call.manifest.kind = "unreadable" =>
             stderr = <<"[signmax-config] Peer dependency check skipped: "
                         \o ReadError \o "\n">>
        /\ call.manifest.kind = "unparsable" =>
             stderr = <<"[signmax-config] Peer dependency check skipped: "
                         \o ParseError \o "\n">>
        /\ (call.manifest.kind = "json" /\ IssuesFound) =>
             /\ Len(stderr) = 1
             /\ startsWith(stderr[1], AuditHeader \o "\n")
        /\ (call.manifest.kind = "json" /\ ~IssuesFound) => stderr = <<>>

\* C16 witness: the manifest could not be parsed and the run ended with a
\* warning.
C16_Witness ==
    /\ PostinstallEnded
    /\ call.manifest.kind = "unparsable"
    /\ ~ret.threw
    /\ Len(stderr) = 1
    /\ Contains(stderr[1], "check skipped")

(***************************************************************************)
(* The auditor: the report of formatAuditMessage.                          *)
(***************************************************************************)
FormatEnded == call.fn = "formatAuditMessage" /\ ret.done

\* Whether s ends with suffix.
EndsWith(s, suffix) ==
    /\ Len(s) >= Len(suffix)
    /\ SubSeq(s, Len(s) - Len(suffix) + 1, Len(s)) = suffix

\* C17: formatAuditMessage returns null exactly when missing and mismatched
\* are both empty; any other report is a string that begins with the header
\* line and ends with the remediation hint.
C17_NullIffNoIssue ==
    FormatEnded =>
        /\ ret.value = null <=> (call.missing = <<>> /\ call.mismatched = <<>>)
        /\ ret.value # null =>
             /\ startsWith(ret.value,
                   "[signmax-config] Peer dependency check detected issues:\n")
             /\ EndsWith(ret.value,
                   "\n  Run \"npx signmax-config-peers\" to install the correct versions.")

\* C17 witness: a report for mismatches alone.
C17_Witness ==
    /\ FormatEnded
    /\ call.missing = <<>>
    /\ call.mismatched # <<>>
    /\ ret.value # null

\* The places of the line feeds of s, with the places before its first and
\* after its last character.
Breaks(s) == {i \in 1..Len(s) : SubSeq(s, i, i) = "\n"} \cup {0, Len(s) + 1}

\* The lines of s: the pieces between its line feeds.
Lines(s) ==
    LET breaks == Breaks(s)
        BreakAt(k) == CHOOSE p \in breaks : Cardinality({q \in breaks : q < p}) = k
    IN  [k \in 1..(Cardinality(breaks) - 1) |->
            SubSeq(s, BreakAt(k - 1) + 1, BreakAt(k) - 1)]

\* The places of `line` among `lines`.
Places(lines, line) == {i \in DOMAIN lines : lines[i] = line}

\* The report has the two blocks as claimed: each block is there exactly
\* when its list is not empty, with one line per entry in the order of the
\* list, the missing peers first; parenthetical[k] tells whether the line of
\* the k-th mismatch ends with " (found <actual>)".
BlocksAsClaimed(parenthetical) ==
    LET lines == Lines(ret.value)
        missing == call.missing
        mismatched == call.mismatched
        missingAt == Places(lines, "  Missing peers:")
        mismatchesAt == Places(lines, "  Version mismatches:")
    IN  /\ missingAt # {} <=> missing # <<>>
        /\ mismatchesAt # {} <=> mismatched # <<>>
        /\ \A i \in missingAt :
             /\ missingAt = {i}
             /\ Len(lines) >= i + Len(missing)
             /\ \A k \in DOMAIN missing :
                  lines[i + k] =
                      "    - " \o missing[k].name \o "@" \o missing[k].expectedVersion
             /\ \A j \in mismatchesAt : j = i + Len(missing) + 1
        /\ \A j \in mismatchesAt :
             /\ mismatchesAt = {j}
             /\ Len(lines) >= j + Len(mismatched)
             /\ \A k \in DOMAIN mismatched :
                  lines[j + k] =
                      "    - " \o mismatched[k].name \o "@"
                        \o mismatched[k].expectedVersion
                        \o (IF parenthetical[k]
                            THEN " (found " \o mismatched[k].actualVersion \o ")"
                            ELSE "")
        /\ Len(lines) = 2 + (IF missing # <<>> THEN 1 + Len(missing) ELSE 0)
                          + (IF mismatched # <<>> THEN 1 + Len(mismatched) ELSE 0)

\* A report was returned.
Reported == FormatEnded /\ ret.value # null

\* C18 as stated: in a report the "Missing peers" block appears exactly when
\* missing is not empty, one name@expectedVersion line per entry in order;
\* the "Version mismatches" block appears exactly when mismatched is not
\* empty, one line per entry in order, with " (found <actual>)" when an
\* actual version is known and without it when none is known (the field is
\* absent, or is the "unknown" of a manifest that could not be read); the
\* missing peers come first.
C18_FoundOnlyWhenVersionKnown ==
    Reported =>
        BlocksAsClaimed([k \in DOMAIN call.mismatched |->
                            /\ call.mismatched[k].actualVersion # undefined
                            /\ call.mismatched[k].actualVersion # "unknown"])

\* C18 as amended: the same blocks, with " (found <actualVersion>)" for
\* every entry whose actualVersion field is set, the "unknown" of an
\* unreadable manifest included, and without it when the field is absent or
\* empty.
C18_FoundWhenFieldSet ==
    Reported =>
        BlocksAsClaimed([k \in DOMAIN call.mismatched |->
                            /\ call.mismatched[k].actualVersion # undefined
                            /\ call.mismatched[k].actualVersion # ""])

\* C18 witness: a report with both blocks, one mismatch without a version
\* field and one of an unreadable manifest.
C18_Witness ==
    /\ Reported
    /\ call.missing # <<>>
    /\ \E k \in DOMAIN call.mismatched : call.mismatched[k].actualVersion = undefined
    /\ \E k \in DOMAIN call.mismatched : call.mismatched[k].actualVersion = "unknown"
    /\ Contains(ret.value, " (found unknown)")

(***************************************************************************)
(* runCli: one result, whatever the child emits and when.                  *)
(***************************************************************************)
\* The result the first event of the child stands for.
ResultOfFirstEvent ==
    /\ returned = IF ClosedClean THEN <<0>> ELSE <<1>>
    /\ stderr = IF ClosedClean THEN <<>> ELSE <<FailureLine(emitted[1])>>

\* C21: runCli gives one result per invocation under every interleaving of
\* the child's close and error events: the first event alone fixes it (0
\* only for close with code 0, else 1 with one message on stderr), a later
\* event changes neither the result nor what was written, and once an event
\* was emitted the result comes.
C21_OneResultFromFirstEvent ==
    /\ [](Len(returned) <= 1 /\ Len(stderr) <= 1)
    /\ []((pc = "done" /\ spawned # <<>>) => ResultOfFirstEvent)
    /\ [][pc = "done" =>
            (pc' = "done" /\ returned' = returned /\ stderr' = stderr
               /\ stdout' = stdout)]_vars
    /\ (spawned # <<>> /\ emitted # <<>>) ~> (pc = "done" /\ Len(returned) = 1)

\* C21 witness: the child emitted error and then close with code 0, and
\* runCli returned 1 with the one message of the error.
C21_Witness ==
    /\ pc = "done"
    /\ Len(emitted) = 2
    /\ emitted[1].event = "error"
    /\ emitted[2] = [event |-> "close", code |-> "0"]
    /\ returned = <<1>>
    /\ stderr = <<emitted[1].message \o "\n">>

(***************************************************************************)
(* The auditor: the shape of the lists returned.                           *)
(***************************************************************************)
\* The place of the package `name` among `entries` (0 when it is not there).
PlaceOf(entries, name) ==
    IF \E i \in DOMAIN entries : entries[i].name = name
    THEN CHOOSE i \in DOMAIN entries : entries[i].name = name
    ELSE 0

\* The packages of `list` are packages of `entries`, in the order of `entries`.
InOrderOf(list, entries) ==
    /\ \A i \in DOMAIN list : PlaceOf(entries, list[i].name) # 0
    /\ \A i, j \in DOMAIN list :
         i < j => PlaceOf(entries, list[i].name) < PlaceOf(entries, list[j].name)

\* No peer is named twice in missing and mismatched together, the entries
\* are no more than the peers, and without peers nothing is listed or probed.
AuditListsDisjoint ==
    AuditEnded =>
        LET missing == ret.value.missing
            mismatched == ret.value.mismatched
        IN  /\ \A n \in PeerNames :
                 Cardinality(EntriesFor(missing, n))
                   + Cardinality(EntriesFor(mismatched, n)) <= 1
            /\ Len(missing) + Len(mismatched) <= Len(PeersOf(call.manifest))
            /\ PeersOf(call.manifest) = <<>> =>
                 /\ missing = <<>>
                 /\ mismatched = <<>>
                 /\ probed = {}

\* The lists follow the order in which the peers were enumerated.
AuditListsInEnumerationOrder ==
    AuditEnded =>
        /\ InOrderOf(ret.value.missing, ret.value.peers)
        /\ InOrderOf(ret.value.mismatched, ret.value.peers)

\* C22: after auditPeerDependencies every peer name appears at most once
\* across missing and mismatched, each list is a subsequence of the
\* manifest's peer order, peers equals the manifest's entries in order, the
\* entries of the two lists are no more than the peers, and with no peers
\* both lists are empty and nothing is resolved.
C22_AuditListsFollowManifest ==
    /\ AuditListsDisjoint
    /\ AuditEnded =>
         /\ ret.value.peers = PeersOf(call.manifest)
         /\ InOrderOf(ret.value.missing, PeersOf(call.manifest))
         /\ InOrderOf(ret.value.mismatched, PeersOf(call.manifest))

====
